---------------------------- MODULE Spec2Model ----------------------------
(***************************************************************************)
(* A model of au-powerball-stats: the fetcher with its retries, the JSON   *)
(* and HTML parsers, the source resolver, sync_all and the draws table.    *)
(*                                                                         *)
(* src/app/scraper.py does not compile as it stands (the docstring of      *)
(* _html_fetch_latest_6m is indented one column deeper than its body) and  *)
(* it calls _html_fetch_year, which no file defines.  The model follows    *)
(* the statements of the file as they read; of two definitions of one      *)
(* name the later one is the one a call reaches.                           *)
(***************************************************************************)
EXTENDS Integers, Sequences, FiniteSets, TLC

(***************************************************************************)
(* Program constants.                                                      *)
(***************************************************************************)
YEAR_START == 2018
RETRIES == 3
RETRY_BACKOFF == 3
MainMax == 35
PbMax == 20
NumMains == 7

(***************************************************************************)
(* Bounds of the model.                                                    *)
(***************************************************************************)
\* dt.date.today().year is YEAR_START + YearSpan
YearSpan == 1
\* the interpreter's recursion limit (sys.getrecursionlimit(), 1000 in
\* CPython) counted in frames of _html_fetch_latest_6m
RecursionLimit == 3

year_now == YEAR_START + YearSpan
\* (dt.date.today() - dt.timedelta(days=183)).isoformat(), as yyyymmdd: today
\* is the first of August of year_now
Cutoff == year_now * 10000 + 130

(***************************************************************************)
(* Python sequences.                                                       *)
(***************************************************************************)
RECURSIVE RowsSince(_, _)
\* [d for d in all_rows if d["draw_date"] >= cutoff]
RowsSince(rows, cutoff) ==
    IF rows = <<>> THEN <<>>
    ELSE (IF Head(rows).draw_date >= cutoff THEN <<Head(rows)>> ELSE <<>>)
         \o RowsSince(Tail(rows), cutoff)

RECURSIVE InsertByNo(_, _)
\* insertion of d behind every element whose draw_no is <= its own
InsertByNo(d, sorted) ==
    IF sorted = <<>> THEN <<d>>
    ELSE IF Head(sorted).draw_no <= d.draw_no
         THEN <<Head(sorted)>> \o InsertByNo(d, Tail(sorted))
         ELSE <<d>> \o sorted

RECURSIVE SortByDrawNo(_)
\* sorted(items, key=lambda x: x["draw_no"]): a stable sort
SortByDrawNo(items) ==
    IF items = <<>> THEN <<>>
    ELSE InsertByNo(items[Len(items)], SortByDrawNo(SubSeq(items, 1, Len(items) - 1)))

RECURSIVE DedupFrom(_, _)
DedupFrom(items, seenNos) ==
    IF items = <<>> THEN <<>>
    ELSE IF Head(items).draw_no \in seenNos
         THEN DedupFrom(Tail(items), seenNos)
         ELSE <<Head(items)>> \o DedupFrom(Tail(items), seenNos \cup {Head(items).draw_no})

\* the loops "if d['draw_no'] in seen: continue; seen.add(...); out.append(d)"
Dedup(items) == DedupFrom(items, {})

(***************************************************************************)
(* Dates.  A date string is [fmt, val]: val is the day as yyyymmdd, fmt    *)
(* the way it is written.                                                  *)
(*   "iso"      2018-01-04                                                 *)
(*   "isoT"     2018-01-04T19:30:00                                        *)
(*   "long"     4 January, 2018                                            *)
(*   "weekday"  Thursday 4 January 2018                                    *)
(*   "bad"      anything no format reads;  "none": the field is absent     *)
(***************************************************************************)
NoDate == 0
DateStr(f, v) == [fmt |-> f, val |-> v]

\* the formats strptime is tried with
ParsedFormats == {"iso", "long", "weekday"}

_try_parse_date(s) == IF s.fmt \in ParsedFormats THEN s.val ELSE NoDate

\* draw_date_raw.split("T")[0]: a time stamp loses its time; a string that
\* begins with a capital T (Thursday, Tuesday) becomes empty
SplitT(s) ==
    CASE s.fmt = "isoT" -> DateStr("iso", s.val)
      [] s.fmt = "weekday" -> DateStr("bad", s.val)
      [] OTHER -> s

(***************************************************************************)
(* Canonical draw dicts.                                                   *)
(***************************************************************************)
Draw(no, date, nums, pb, src) ==
    [draw_no |-> no, draw_date |-> date, nums |-> nums, pb |-> pb, source_url |-> src]

InRangeAll(ns, lo, hi) == \A i \in 1..Len(ns) : lo <= ns[i] /\ ns[i] <= hi

(***************************************************************************)
(* API objects.  An object carries the first alias of each field; an       *)
(* absent key reads as "" (ProductId), 0 (DrawNumber, PowerballNumber),    *)
(* fmt "none" (DrawDate) or <<>> (PrimaryNumbers, SupplementaryNumbers).   *)
(***************************************************************************)
ApiObj(prod, no, date, main, pb, supp) ==
    [ProductId |-> prod, DrawNumber |-> no, DrawDate |-> date,
     PrimaryNumbers |-> main, PowerballNumber |-> pb, SupplementaryNumbers |-> supp]

\* the number range test of _to_draw_dict_from_api
ApiRangeOk(main, pb) == 1 <= pb /\ pb <= PbMax /\ InRangeAll(main, 1, MainMax)

\* _to_draw_dict_from_api: <<>> for None, <<d>> for a draw dict
_to_draw_dict_from_api(obj) ==
    LET isStr == obj.DrawDate.fmt # "none"
        first == IF isStr THEN _try_parse_date(SplitT(obj.DrawDate)) ELSE NoDate
        date_iso == IF first = NoDate /\ isStr THEN _try_parse_date(obj.DrawDate) ELSE first
        main0 == obj.PrimaryNumbers
        \* pb: a scalar, else the first element of the list, else None
        pbNone == obj.PowerballNumber = 0 /\ obj.SupplementaryNumbers = <<>>
        pb0 == IF obj.PowerballNumber # 0 THEN obj.PowerballNumber
               ELSE IF obj.SupplementaryNumbers # <<>> THEN obj.SupplementaryNumbers[1]
               ELSE 0
        split == pbNone /\ Len(main0) = 8
        pb == IF split THEN main0[8] ELSE pb0
        main == IF split THEN SubSeq(main0, 1, 7) ELSE main0
        shapeOk == Len(main) = NumMains /\ ~(pbNone /\ ~split)
    IN  IF obj.ProductId # "Powerball" THEN <<>>
        ELSE IF ~shapeOk THEN <<>>
        ELSE IF ~ApiRangeOk(main, pb) THEN <<>>
        ELSE IF obj.DrawNumber = 0 \/ date_iso = NoDate THEN <<>>
        ELSE <<Draw(obj.DrawNumber, date_iso, main, pb, "thelott-api")>>

RECURSIVE ParseApiList(_)
\* for obj in raw: d = _to_draw_dict_from_api(obj); if d: items.append(d)
ParseApiList(raw) ==
    IF raw = <<>> THEN <<>>
    ELSE _to_draw_dict_from_api(Head(raw)) \o ParseApiList(Tail(raw))

RECURSIVE PowerballOnly(_)
\* the filter of _api_fetch_productdraws: the object parses (d) and its
\* ProductId itself reads powerball
PowerballOnly(raw) ==
    IF raw = <<>> THEN <<>>
    ELSE (IF Head(raw).ProductId = "Powerball"
          THEN _to_draw_dict_from_api(Head(raw)) ELSE <<>>)
         \o PowerballOnly(Tail(raw))

\* "if len(items) >= max_items: break"
TakeUpTo(items, max_items) ==
    IF Len(items) <= max_items THEN items ELSE SubSeq(items, 1, max_items)

\* what _api_fetch_productdraws makes of the feed's Draws list
ProductDrawsRows(raw, max_items) ==
    Dedup(SortByDrawNo(TakeUpTo(PowerballOnly(raw), max_items)))

\* what _api_fetch_range_by_date returns for the items it collected
RangeRows(items) == Dedup(SortByDrawNo(items))

(***************************************************************************)
(* HTML blocks.  A block is what the parser reads of one element:          *)
(*   draw_no  the number behind "Draw" in its text, 0 when DRAW_NO_RE      *)
(*            finds none                                                   *)
(*   date     the substring DATE_RE finds (fmt "none" when it finds none)  *)
(*   ul       the one and two digit tokens of the following <ul>           *)
(*   near     those of the 220 characters behind the date                  *)
(***************************************************************************)
Block(no, date, ul, near) == [draw_no |-> no, date |-> date, ul |-> ul, near |-> near]

NoNums == <<>>

\* _extract_8_from_ul: the tokens when there are exactly eight
_extract_8_from_ul(ul) == IF Len(ul) = 8 THEN ul ELSE NoNums

\* the plausibility test of one window of _extract_8_from_near
Plausible(window) ==
    /\ Len(window) = 8
    /\ window[8] <= PbMax
    /\ InRangeAll(SubSeq(window, 1, 7), 1, MainMax)

\* _extract_8_from_near: the first plausible window, else the first eight
_extract_8_from_near(cand) ==
    LET starts == {i \in 1..(Len(cand) - 7) : Plausible(SubSeq(cand, i, i + 7))}
        least == CHOOSE i \in starts : \A j \in starts : i <= j
    IN  IF starts # {} THEN SubSeq(cand, least, least + 7)
        ELSE IF Len(cand) >= 8 THEN SubSeq(cand, 1, 8)
        ELSE NoNums

\* the range test of _parse_block
BlockRangeOk(main, pb) == 1 <= pb /\ pb <= PbMax /\ InRangeAll(main, 1, MainMax)

\* _parse_block: <<>> for None, <<d>> for a draw dict
_parse_block(b, source_url) ==
    LET draw_date == IF b.date.fmt = "none" THEN NoDate ELSE _try_parse_date(b.date)
        fromUl == _extract_8_from_ul(b.ul)
        nums == IF fromUl # NoNums THEN fromUl ELSE _extract_8_from_near(b.near)
    IN  IF b.draw_no = 0 THEN <<>>
        ELSE IF draw_date = NoDate THEN <<>>
        ELSE IF Len(nums) # 8 THEN <<>>
        ELSE IF ~BlockRangeOk(SubSeq(nums, 1, 7), nums[8]) THEN <<>>
        ELSE <<Draw(b.draw_no, draw_date, SubSeq(nums, 1, 7), nums[8], source_url)>>

RECURSIVE ParseBlocks(_, _)
ParseBlocks(blocks, source_url) ==
    IF blocks = <<>> THEN <<>>
    ELSE _parse_block(Head(blocks), source_url) \o ParseBlocks(Tail(blocks), source_url)

\* a page: the <a> elements and the heading, paragraph and container
\* elements whose text holds "Draw <number>", in document order
Page(anchors, tags) == [anchors |-> anchors, tags |-> tags]

\* the second strategy run whatever the first one found
AlwaysTags(items) == TRUE

\* "if not items": the second strategy runs when the anchors gave no record
UseTags(items) == items = <<>>

\* _parse_html_page: both strategies append to the one list, then the de-dup
_parse_html_page(page, source_url) ==
    LET byAnchor == ParseBlocks(page.anchors, source_url)
        items == IF UseTags(byAnchor) THEN byAnchor \o ParseBlocks(page.tags, source_url)
                 ELSE byAnchor
    IN  Dedup(items)

(***************************************************************************)
(* What the upstream sites may answer.                                     *)
(***************************************************************************)
OldDay == YEAR_START * 10000 + 104
NewDay == year_now * 10000 + 606

oA == ApiObj("Powerball", 1, DateStr("iso", OldDay), <<1, 2, 3, 4, 5, 6, 7>>, 8, <<>>)
oA2 == ApiObj("Powerball", 1, DateStr("isoT", OldDay), <<2, 9, 17, 23, 28, 31, 35>>, 10, <<>>)
oB == ApiObj("Powerball", 2, DateStr("weekday", NewDay), <<1, 7, 12, 19, 21, 27, 33>>, 0, <<5>>)
o8 == ApiObj("Powerball", 2, DateStr("iso", NewDay), <<1, 7, 12, 19, 21, 27, 33, 5>>, 0, <<>>)
\* a main number drawn twice
oRep == ApiObj("Powerball", 2, DateStr("iso", NewDay), <<5, 5, 1, 2, 3, 4, 6>>, 3, <<>>)
\* objects the parser has to drop
oHigh == ApiObj("Powerball", 3, DateStr("iso", NewDay), <<1, 2, 3, 4, 5, 6, 36>>, 3, <<>>)
oZero == ApiObj("Powerball", 3, DateStr("iso", NewDay), <<0, 2, 3, 4, 5, 6, 7>>, 3, <<>>)
oPb == ApiObj("Powerball", 3, DateStr("iso", NewDay), <<1, 2, 3, 4, 5, 6, 7>>, 21, <<>>)
oSix == ApiObj("Powerball", 3, DateStr("iso", NewDay), <<1, 2, 3, 4, 5, 6>>, 3, <<>>)
oNoPb == ApiObj("Powerball", 3, DateStr("iso", NewDay), <<1, 2, 3, 4, 5, 6, 7>>, 0, <<>>)
oOz == ApiObj("OzLotto", 3, DateStr("iso", NewDay), <<1, 2, 3, 4, 5, 6, 7>>, 3, <<>>)
oBadDate == ApiObj("Powerball", 3, DateStr("bad", NewDay), <<1, 2, 3, 4, 5, 6, 7>>, 3, <<>>)
oNoDate == ApiObj("Powerball", 3, DateStr("none", 0), <<1, 2, 3, 4, 5, 6, 7>>, 3, <<>>)
oNoNumber == ApiObj("Powerball", 0, DateStr("iso", NewDay), <<1, 2, 3, 4, 5, 6, 7>>, 3, <<>>)

Junk == <<oHigh, oZero, oPb, oSix, oNoPb, oOz, oBadDate, oNoDate, oNoNumber>>

\* the lists a JSON endpoint may send
FeedJunk == Junk
FeedA == <<o8, oA>> \o Junk
FeedA2 == <<oA2, oB>>
FeedRep == <<oHigh, oRep, o8>>
ApiBodies == {FeedJunk, FeedA, FeedA2, FeedRep}

\* the blocks of an archive page
kH == Block(1, DateStr("long", OldDay), <<3, 6, 14, 20, 22, 30, 34, 12>>, <<>>)
kNear == Block(2, DateStr("long", NewDay), <<>>, <<0, 99, 1, 7, 12, 19, 21, 27, 33, 5, 40>>)
kRep == Block(2, DateStr("long", NewDay), <<9, 9, 1, 2, 3, 4, 6, 3>>, <<>>)
kBad == Block(2, DateStr("long", NewDay), <<1, 2, 3, 4, 5, 6, 7, 0>>, <<>>)
kNoDraw == Block(0, DateStr("long", NewDay), <<1, 2, 3, 4, 5, 6, 7, 8>>, <<>>)
kNoDate == Block(2, DateStr("bad", NewDay), <<1, 2, 3, 4, 5, 6, 7, 8>>, <<>>)

kZero == Block(3, DateStr("long", NewDay), <<>>,
               <<1, 2, 3, 4, 5, 6, 7, 0, 8, 9, 10, 11, 12, 13, 14, 15>>)
kShort == Block(3, DateStr("long", NewDay), <<>>, <<1, 2, 3, 4, 5, 6, 7>>)
kFirst8 == Block(3, DateStr("long", NewDay), <<>>, <<1, 2, 3, 4, 5, 6, 7, 21, 40>>)

\* the blocks _parse_block may be given
HtmlBlocks == {kH, kNear, kRep, kBad, kNoDraw, kNoDate, kZero, kShort, kFirst8}

\* the most elements of one kind on a page
MaxBlocks == 2

\* the sequences of up to n elements of a set
UpTo(set, n) == UNION {[1..m -> set] : m \in 0..n}

\* the pages _parse_html_page may be given
HtmlPages ==
    {Page(anchors, tags) : anchors \in UpTo({kH, kNoDate}, MaxBlocks),
                           tags \in UpTo({kH, kNear, kRep}, MaxBlocks)}

\* a response: the fetch raised (every attempt failed), or its payload
Failed == [ok |-> FALSE, body |-> <<>>]
Json(b) == [ok |-> TRUE, body |-> b]
ApiResponses == {Failed} \cup {Json(b) : b \in ApiBodies}

(***************************************************************************)
(* The state.                                                              *)
(***************************************************************************)
\* the invocations of sync_all: the start-up thread and the cron job
RunIds == {"startup", "cron"}

\* initial_sync_async() is called before schedule_job(): the cron job fires
\* once the start-up thread has begun
Before(r) == IF r = "cron" THEN {"startup"} ELSE {}

VARIABLES
    draws,              \* the rows of table draws
    next_id,            \* the AUTOINCREMENT counter of draws.id
    upstream,           \* what each endpoint answered, where answers are pinned
    pc,                 \* where each invocation of sync_all stands
    scope,              \* the range it works on: a year, or the trailing window
    depth,              \* the frames of _html_fetch_latest_6m on its stack
    queue,              \* the items upsert_many has not taken yet
    seen,               \* sync_all's seen
    added_or_updated,   \* sync_all's added_or_updated
    problems,           \* sync_all's problems
    result,             \* what sync_all returned
    visited,            \* history: the ranges in the order their resolution began
    returned,           \* history: the draw numbers the resolutions returned
    taken,              \* history: the records upsert_many took, in order
    calls,              \* history: per draw number the records given to upsert_draw
    raised,             \* history: the exceptions raised into sync_all's loop
    final,              \* history: the table when sync_all returned
    fetcher,            \* one call of _http_get or _http_post_json
    reader,             \* one call of get_frequencies
    stats,              \* one call of compute_prediction or compute_group_stats
    parser              \* one call of _parse_html_page or _parse_block

syncVars == <<draws, next_id, upstream, pc, scope, depth, queue, seen, added_or_updated,
              problems, result, visited, returned, taken, calls, raised, final>>
\* what sync_all leaves alone
aside == <<fetcher, reader, stats, parser>>
vars == <<syncVars, aside>>

YearScope(y) == [kind |-> "year", year |-> y]
Latest6m == [kind |-> "latest6m", year |-> 0]
NoScope == [kind |-> "none", year |-> 0]

\* range(YEAR_START, year_now + 1), then the trailing window
NextScope(sc) ==
    IF sc.kind = "year" /\ sc.year < year_now THEN YearScope(sc.year + 1) ELSE Latest6m

\* the label of a problem: f"year:{y}" or "latest6m"
Where(sc) == IF sc.kind = "year" THEN "year:" \o ToString(sc.year) ELSE "latest6m"

NoResult == [pending |-> TRUE]

\* a row of draws (created_at left out)
Row(id, d) ==
    [id |-> id, draw_no |-> d.draw_no, draw_date |-> d.draw_date, nums |-> d.nums,
     powerball |-> d.pb, source_url |-> d.source_url]

\* the columns an upsert writes
Content(row) ==
    [draw_no |-> row.draw_no, draw_date |-> row.draw_date, nums |-> row.nums,
     powerball |-> row.powerball, source_url |-> row.source_url]

TableContent(table) == {Content(row) : row \in table}

\* a plain INSERT, without the ON CONFLICT clause and the UNIQUE it rests on
InsertRows(table, id, d) == table \cup {Row(id, d)}

\* INSERT ... ON CONFLICT(draw_no) DO UPDATE SET ...: the table afterwards
UpsertRows(table, id, d) ==
    IF \E row \in table : row.draw_no = d.draw_no
    THEN {IF row.draw_no = d.draw_no THEN Row(row.id, d) ELSE row : row \in table}
    ELSE table \cup {Row(id, d)}

\* a table left by an earlier version of the feed
OldTable == {Row(1, Draw(1, OldDay, <<2, 9, 17, 23, 28, 31, 35>>, 10, "thelott-api"))}

\* the process starts on one of the tables
InitWith(tables) ==
    /\ draws \in tables
    /\ next_id = Cardinality(draws) + 1
    /\ upstream = <<>>
    /\ pc = [r \in RunIds |-> "idle"]
    /\ scope = [r \in RunIds |-> NoScope]
    /\ depth = [r \in RunIds |-> 0]
    /\ queue = [r \in RunIds |-> <<>>]
    /\ seen = [r \in RunIds |-> {}]
    /\ added_or_updated = [r \in RunIds |-> 0]
    /\ problems = [r \in RunIds |-> <<>>]
    /\ result = [r \in RunIds |-> NoResult]
    /\ visited = [r \in RunIds |-> <<>>]
    /\ returned = [r \in RunIds |-> {}]
    /\ taken = [r \in RunIds |-> <<>>]
    /\ calls = [r \in RunIds |-> <<>>]
    /\ raised = [r \in RunIds |-> <<>>]
    /\ final = [r \in RunIds |-> {}]

InitSync == InitWith({{}, OldTable})

(***************************************************************************)
(* The upstream.  An endpoint is a path and the range it is asked for.     *)
(* env describes the surroundings of the invocations:                      *)
(*   env.pinned   an endpoint gives, whenever it is asked again, the       *)
(*                answer it gave first (the upstream does not change);     *)
(*                otherwise every request is answered afresh               *)
(*   env.overlap  sync_all may be called while a call of it is running     *)
(*   env.api      what a JSON endpoint may answer                          *)
(***************************************************************************)
Endpoint(path, sc) == [path |-> path, range |-> sc]

Answers(e, env, all) == IF env.pinned /\ e \in DOMAIN upstream THEN {upstream[e]} ELSE all

Remember(e, resp, env) ==
    upstream' = IF env.pinned /\ e \notin DOMAIN upstream THEN (e :> resp) @@ upstream ELSE upstream

\* str(e) of what the resolution of a year raises, and of what upsert_draw raises
NameError == "name '_html_fetch_year' is not defined"
StorageError == "OperationalError"

\* an exception reaches the try of sync_all's loop: out of the resolution of
\* the range ("resolve") or out of upsert_many ("store")
Raise(r, what) ==
    raised' = [raised EXCEPT ![r] = Append(@, [scope |-> scope[r], what |-> what])]

(***************************************************************************)
(* sync_all.                                                               *)
(***************************************************************************)
\* the return statement of sync_all
SyncResult(r) == [upserted |-> added_or_updated[r]]

\* the iteration for the range of r ends with problems = probs: the loop goes
\* on with the next year, then with the trailing window, then sync_all returns
Advance(r, probs) ==
    /\ problems' = [problems EXCEPT ![r] = probs]
    /\ queue' = [queue EXCEPT ![r] = <<>>]
    /\ depth' = [depth EXCEPT ![r] = 0]
    /\ IF scope[r] = Latest6m
       THEN /\ pc' = [pc EXCEPT ![r] = "done"]
            /\ result' = [result EXCEPT ![r] = SyncResult(r)]
            /\ final' = [final EXCEPT ![r] = draws]
            /\ UNCHANGED <<scope, visited>>
       ELSE /\ pc' = [pc EXCEPT ![r] = "hist"]
            /\ scope' = [scope EXCEPT ![r] = NextScope(scope[r])]
            /\ visited' = [visited EXCEPT ![r] = Append(@, NextScope(scope[r]))]
            /\ UNCHANGED <<result, final>>

\* "except Exception: pass"
Swallowed(r, err) == Advance(r, problems[r])

\* "except Exception as e: problems.append((where, str(e)))", and the loop goes on
Caught(r, err) ==
    Advance(r, Append(problems[r], [where |-> Where(scope[r]), err |-> err]))

\* the resolution of the range returned rows: upsert_many(rows, label) begins
Deliver(r, rows) ==
    /\ queue' = [queue EXCEPT ![r] = rows]
    /\ returned' = [returned EXCEPT ![r] = @ \cup {rows[i].draw_no : i \in 1..Len(rows)}]
    /\ pc' = [pc EXCEPT ![r] = "upsert"]
    /\ depth' = [depth EXCEPT ![r] = 0]

\* the next step of the chain, with nothing else changed
Goto(r, label) ==
    /\ pc' = [pc EXCEPT ![r] = label]
    /\ UNCHANGED <<queue, returned, depth>>

\* _api_fetch_range_by_date returned rows to the function that called it:
\* fetch_year, fetch_latest_six_months, or a frame of _html_fetch_latest_6m
RangeReturn(r, rows) ==
    IF rows # <<>> THEN Deliver(r, rows)
    ELSE IF depth[r] = 0 /\ scope[r].kind = "year" THEN Goto(r, "html")
    ELSE IF depth[r] < RecursionLimit
         THEN \* _html_fetch_latest_6m is called: by fetch_latest_six_months
              \* (depth 0), or by itself as its "HTML fallback"
              /\ pc' = [pc EXCEPT ![r] = "productdraws"]
              /\ depth' = [depth EXCEPT ![r] = @ + 1]
              /\ UNCHANGED <<queue, returned>>
         ELSE \* the call overflows the stack: RecursionError, which the
              \* except of the calling frame turns into [], and every frame
              \* below returns what its callee returned
              Deliver(r, <<>>)

\* sync_all is called
Start(r, env) ==
    /\ pc[r] = "idle"
    /\ \A q \in Before(r) : pc[q] # "idle"
    /\ env.overlap \/ \A q \in RunIds \ {r} : pc[q] \in {"idle", "done"}
    /\ pc' = [pc EXCEPT ![r] = "hist"]
    /\ scope' = [scope EXCEPT ![r] = YearScope(YEAR_START)]
    /\ visited' = [visited EXCEPT ![r] = <<YearScope(YEAR_START)>>]
    /\ UNCHANGED <<aside, draws, next_id, upstream, depth, queue, seen, added_or_updated,
                   problems, result, returned, taken, calls, raised, final>>

\* one attempt of _api_fetch_range_by_date: a POST, the parse of its list
PostJson(r, env, path, range, after) ==
    \E resp \in Answers(Endpoint(path, range), env, env.api) :
        LET items == IF resp.ok THEN ParseApiList(resp.body) ELSE <<>>
        IN  /\ Remember(Endpoint(path, range), resp, env)
            /\ IF items # <<>> THEN RangeReturn(r, RangeRows(items))
               ELSE IF after # "" THEN Goto(r, after)
               ELSE RangeReturn(r, <<>>)
            /\ UNCHANGED <<aside, draws, next_id, scope, seen, added_or_updated, problems,
                           result, visited, taken, calls, raised, final>>

PostHistoryResults(r, env) ==
    /\ pc[r] = "hist"
    /\ PostJson(r, env, "historyresults", scope[r], "draw")

PostDrawResults(r, env) ==
    /\ pc[r] = "draw"
    /\ PostJson(r, env, "drawresults", NoScope, "latest")

PostLatestResults(r, env) ==
    /\ pc[r] = "latest"
    /\ PostJson(r, env, "latestresults", NoScope, "")

\* "return _html_fetch_year(year)" in fetch_year: no module binds the name,
\* the call raises NameError, and fetch_year has no try around it
HtmlFetchYear(r) ==
    /\ pc[r] = "html"
    /\ Raise(r, "resolve")
    /\ Caught(r, NameError)
    /\ UNCHANGED <<aside, draws, next_id, upstream, seen, added_or_updated, returned,
                   taken, calls>>

\* the first step of _html_fetch_latest_6m: GET productdraws, cut to the
\* last 183 days; an empty feed or an exception leads to the POST endpoints
GetProductDraws(r, env) ==
    /\ pc[r] = "productdraws"
    /\ \E resp \in Answers(Endpoint("productdraws", NoScope), env, env.api) :
        LET all_rows == IF resp.ok THEN ProductDrawsRows(resp.body, 600) ELSE <<>>
        IN  /\ Remember(Endpoint("productdraws", NoScope), resp, env)
            /\ IF all_rows # <<>> THEN Deliver(r, RowsSince(all_rows, Cutoff))
               ELSE Goto(r, "hist")
    /\ UNCHANGED <<aside, draws, next_id, scope, seen, added_or_updated, problems, result,
                   visited, taken, calls, raised, final>>

\* upsert_many without its seen test
NeverSeen(r, d) == FALSE

\* "if d['draw_no'] in seen"
AlreadySeen(r, d) == d.draw_no \in seen[r]

\* upsert_many takes an item whose draw number it has seen: continue
UpsertSkip(r) ==
    /\ pc[r] = "upsert"
    /\ queue[r] # <<>>
    /\ AlreadySeen(r, Head(queue[r]))
    /\ queue' = [queue EXCEPT ![r] = Tail(@)]
    /\ taken' = [taken EXCEPT ![r] = Append(@, Head(queue[r]))]
    /\ UNCHANGED <<aside, draws, next_id, upstream, pc, scope, depth, seen, added_or_updated,
                   problems, result, visited, returned, calls, raised, final>>

\* history of an item that goes on to upsert_draw
Taken(r, d) ==
    /\ taken' = [taken EXCEPT ![r] = Append(@, d)]
    /\ calls' = [calls EXCEPT ![r] =
                    IF d.draw_no \in DOMAIN @
                    THEN [@ EXCEPT ![d.draw_no] = Append(@, d)]
                    ELSE (d.draw_no :> <<d>>) @@ @]

\* a count of the rows added only
CountedIfNew(r, d) ==
    IF \E row \in draws : row.draw_no = d.draw_no
    THEN added_or_updated[r] ELSE added_or_updated[r] + 1

\* "added_or_updated += 1" behind the upsert of d
Counted(r, d) == added_or_updated[r] + 1

\* upsert_many takes a new item and upsert_draw commits it
UpsertStore(r) ==
    /\ pc[r] = "upsert"
    /\ queue[r] # <<>>
    /\ ~AlreadySeen(r, Head(queue[r]))
    /\ LET d == Head(queue[r])
       IN  /\ seen' = [seen EXCEPT ![r] = @ \cup {d.draw_no}]
           /\ draws' = UpsertRows(draws, next_id, d)
           /\ next_id' = IF \E row \in draws : row.draw_no = d.draw_no
                         THEN next_id ELSE next_id + 1
           /\ added_or_updated' = [added_or_updated EXCEPT ![r] = Counted(r, d)]
           /\ Taken(r, d)
    /\ queue' = [queue EXCEPT ![r] = Tail(@)]
    /\ UNCHANGED <<aside, upstream, pc, scope, depth, problems, result, visited, returned,
                   raised, final>>

\* upsert_many takes a new item and upsert_draw raises (the database cannot
\* be opened, or is locked): the except of sync_all's loop takes it
UpsertFail(r) ==
    /\ pc[r] = "upsert"
    /\ queue[r] # <<>>
    /\ ~AlreadySeen(r, Head(queue[r]))
    /\ seen' = [seen EXCEPT ![r] = @ \cup {Head(queue[r]).draw_no}]
    /\ Taken(r, Head(queue[r]))
    /\ Raise(r, "store")
    /\ Caught(r, StorageError)
    /\ UNCHANGED <<aside, draws, next_id, upstream, added_or_updated, returned>>

\* upsert_many has taken every item
BatchEnd(r) ==
    /\ pc[r] = "upsert"
    /\ queue[r] = <<>>
    /\ Advance(r, problems[r])
    /\ UNCHANGED <<aside, draws, next_id, upstream, seen, added_or_updated, returned,
                   taken, calls, raised>>

SyncStep(r, env) ==
    \/ Start(r, env)
    \/ PostHistoryResults(r, env)
    \/ PostDrawResults(r, env)
    \/ PostLatestResults(r, env)
    \/ HtmlFetchYear(r)
    \/ GetProductDraws(r, env)
    \/ UpsertSkip(r)
    \/ UpsertStore(r)
    \/ UpsertFail(r)
    \/ BatchEnd(r)

(***************************************************************************)
(* The fetcher: one call of _http_get or _http_post_json.  fetcher.log is  *)
(* what the call did, in order: its requests (with the error of each       *)
(* failed one) and its sleeps (with their seconds).                        *)
(***************************************************************************)
NoErr == ""

\* what one request may meet: the status of the reply (0: no reply, the
\* request timed out or the connection failed) and whether its body is JSON
HttpAnswers == [status : {200, 503, 0}, json : BOOLEAN]

\* the try block ends without an exception: raise_for_status, and r.json()
\* in _http_post_json
AttemptOk(fn, a) == a.status = 200 /\ (fn = "post" => a.json)

\* the exception of an attempt that fails
ErrorOf(a) ==
    IF a.status = 0 THEN "Timeout"
    ELSE IF a.status # 200 THEN "HTTPError"
    ELSE "JSONDecodeError"

Requested(n, err) == [ev |-> "request", n |-> n, err |-> err]
Slept(secs) == [ev |-> "sleep", n |-> secs, err |-> NoErr]

FetcherIdle ==
    [fn |-> "none", attempt |-> 0, last_err |-> NoErr, log |-> <<>>,
     state |-> "idle", value |-> ""]

\* "last_err = e"
LastErr(prev, e) == e

\* the sleep without its "if attempt < RETRIES"
SleepsAlways(attempt) == TRUE

\* "if attempt < RETRIES"
SleepsAfter(attempt) == attempt < RETRIES

\* "for attempt in range(1, RETRIES + 1)"
InLoop(attempt) == attempt <= RETRIES

\* _http_get or _http_post_json is called
HttpCall(fn) ==
    /\ fetcher.state = "idle"
    /\ fetcher' = [fetcher EXCEPT !.fn = fn, !.attempt = 1, !.state = "running"]
    /\ UNCHANGED <<syncVars, reader, stats, parser>>

\* an attempt gets its reply: return r.text, return r.json()
HttpAttemptReturns ==
    /\ fetcher.state = "running"
    /\ InLoop(fetcher.attempt)
    /\ \E a \in HttpAnswers :
        /\ AttemptOk(fetcher.fn, a)
        /\ fetcher' = [fetcher EXCEPT
                          !.log = Append(@, Requested(fetcher.attempt, NoErr)),
                          !.state = "returned",
                          !.value = IF fetcher.fn = "post" THEN "json" ELSE "text"]
    /\ UNCHANGED <<syncVars, reader, stats, parser>>

\* an attempt fails: the except block, with its sleep
HttpAttemptFails ==
    /\ fetcher.state = "running"
    /\ InLoop(fetcher.attempt)
    /\ \E a \in HttpAnswers :
        /\ ~AttemptOk(fetcher.fn, a)
        /\ fetcher' = [fetcher EXCEPT
                          !.log = Append(@, Requested(fetcher.attempt, ErrorOf(a)))
                                  \o (IF SleepsAfter(fetcher.attempt)
                                      THEN <<Slept(RETRY_BACKOFF * fetcher.attempt)>>
                                      ELSE <<>>),
                          !.last_err = LastErr(@, ErrorOf(a)),
                          !.attempt = @ + 1]
    /\ UNCHANGED <<syncVars, reader, stats, parser>>

\* the loop is over: "if last_err: raise last_err", else RuntimeError
HttpRaises ==
    /\ fetcher.state = "running"
    /\ ~InLoop(fetcher.attempt)
    /\ fetcher' = [fetcher EXCEPT
                      !.state = "raised",
                      !.value = IF fetcher.last_err # NoErr THEN fetcher.last_err
                                ELSE "RuntimeError"]
    /\ UNCHANGED <<syncVars, reader, stats, parser>>

(***************************************************************************)
(* The reads of db.py.  A limit or window of None, and one of 0, read as   *)
(* NoLimit: "if limit" and "if window" take both for absent.               *)
(***************************************************************************)
NoLimit == 0

\* to_dict of get_draws: the keys of the dicts it returns
DrawDict(row) ==
    [draw_no |-> row.draw_no, draw_date |-> row.draw_date, nums |-> row.nums,
     powerball |-> row.powerball]

\* ORDER BY date(draw_date) DESC, draw_no DESC
Newer(a, b) ==
    \/ a.draw_date > b.draw_date
    \/ a.draw_date = b.draw_date /\ a.draw_no > b.draw_no

RECURSIVE NewestFirst(_)
NewestFirst(table) ==
    IF table = {} THEN <<>>
    ELSE LET top == CHOOSE a \in table : \A b \in table \ {a} : Newer(a, b)
         IN  <<DrawDict(top)>> \o NewestFirst(table \ {top})

\* "if limit: sql += ' LIMIT ?'"
Limited(rows, limit) ==
    IF limit = NoLimit \/ Len(rows) <= limit THEN rows ELSE SubSeq(rows, 1, limit)

get_draws(table, limit) == Limited(NewestFirst(table), limit)

\* the rows a SELECT of get_frequencies reads: all, or "WHERE draw_no IN (ids)"
Selected(table, window, ids) ==
    IF window = NoLimit THEN table ELSE {row \in table : row.draw_no \in ids}

RECURSIVE MainHits(_, _)
\* how often n stands in n1..n7 of the rows
MainHits(rows, n) ==
    IF rows = {} THEN 0
    ELSE LET row == CHOOSE x \in rows : TRUE
         IN  Cardinality({i \in 1..Len(row.nums) : row.nums[i] = n})
             + MainHits(rows \ {row}, n)

\* a table of the numbers that occur only, as a Counter would be
MainSparse(rows) ==
    [n \in {m \in 1..MainMax : MainHits(rows, m) > 0} |-> MainHits(rows, n)]

\* "main = {i:0 for i in range(1,36)}" and its loop
MainTable(rows) == [n \in 1..MainMax |-> MainHits(rows, n)]

\* "pb = {i:0 for i in range(1,21)}" and its loop
PowerballTable(rows) ==
    [n \in 1..PbMax |-> Cardinality({row \in rows : row.powerball = n})]

ReaderIdle ==
    [state |-> "idle", window |-> NoLimit, ids |-> {}, main |-> <<>>, powerball |-> <<>>,
     sample_size |-> 0, tables |-> {}]

\* get_frequencies(window) is called
GetFrequencies(window) ==
    /\ reader.state = "idle"
    /\ reader' = [reader EXCEPT !.window = window,
                                !.state = IF window = NoLimit THEN "main" ELSE "ids"]
    /\ UNCHANGED <<syncVars, fetcher, stats, parser>>

\* "ids = [d['draw_no'] for d in get_draws(limit=window)]"
SelectIds ==
    /\ reader.state = "ids"
    /\ LET rows == get_draws(draws, reader.window)
       IN  reader' = [reader EXCEPT !.ids = {rows[i].draw_no : i \in 1..Len(rows)},
                                    !.tables = @ \cup {draws},
                                    !.state = "main"]
    /\ UNCHANGED <<syncVars, fetcher, stats, parser>>

\* "SELECT n1,n2,n3,n4,n5,n6,n7 FROM draws {where}"
SelectMain ==
    /\ reader.state = "main"
    /\ reader' = [reader EXCEPT
                     !.main = MainTable(Selected(draws, reader.window, reader.ids)),
                     !.tables = @ \cup {draws},
                     !.state = "powerball"]
    /\ UNCHANGED <<syncVars, fetcher, stats, parser>>

\* "SELECT powerball FROM draws {where}"
SelectPowerball ==
    /\ reader.state = "powerball"
    /\ reader' = [reader EXCEPT
                     !.powerball = PowerballTable(Selected(draws, reader.window, reader.ids)),
                     !.tables = @ \cup {draws},
                     !.state = "count"]
    /\ UNCHANGED <<syncVars, fetcher, stats, parser>>

\* "SELECT COUNT(*) FROM draws {where}", and the return
SelectCount ==
    /\ reader.state = "count"
    /\ reader' = [reader EXCEPT
                     !.sample_size = Cardinality(Selected(draws, reader.window, reader.ids)),
                     !.tables = @ \cup {draws},
                     !.state = "returned"]
    /\ UNCHANGED <<syncVars, fetcher, stats, parser>>

(***************************************************************************)
(* The stats engine of app.py: compute_prediction (the later definition,   *)
(* the one a call reaches) and compute_group_stats, for one k.             *)
(***************************************************************************)
\* Python's None where a number of 1.. is expected
None == 0

\* d.get(key)
DictGet(d, key) == IF key \in DOMAIN d THEN d[key] ELSE None

InSeq(n, seq) == \E i \in 1..Len(seq) : seq[i] = n

\* get_frequencies with nothing written during the call
Frequencies(table, window) ==
    LET rows == get_draws(table, window)
        sel == Selected(table, window, {rows[i].draw_no : i \in 1..Len(rows)})
    IN  [main |-> MainTable(sel), powerball |-> PowerballTable(sel),
         sample_size |-> Cardinality(sel)]

\* "most_recent_rank.get(n, 10**9)"
Never == 1000000000

\* "if n in nums or n == pb", with nums = d.get("nums") and pb = d.get("pb")
Hit(n, d) == InSeq(n, DictGet(d, "nums")) \/ n = DictGet(d, "pb")

\* a tie-break that leaves recency out
Unranked(n, rows) == Never

\* most_recent_rank of n: the index of the first draw that hits, from 0
Rank(n, rows) ==
    IF \E i \in 1..Len(rows) : Hit(n, rows[i])
    THEN (CHOOSE i \in 1..Len(rows) :
            Hit(n, rows[i]) /\ \A j \in 1..(i - 1) : ~Hit(n, rows[j])) - 1
    ELSE Never

\* "ranked.sort(key=lambda t: (t[0], t[1]))": t sorts before u
RankedBefore(t, u) == t[1] < u[1] \/ (t[1] = u[1] /\ t[2] <= u[2])

\* pick_top: top_list (as a set), top_count and chosen
pick_top(freq_map, rows) ==
    LET max_count == CHOOSE c \in {freq_map[n] : n \in DOMAIN freq_map} :
                        \A n \in DOMAIN freq_map : freq_map[n] <= c
        top_list == {n \in DOMAIN freq_map : freq_map[n] = max_count}
        chosen == IF Cardinality(top_list) = 1 THEN CHOOSE n \in top_list : TRUE
                  ELSE CHOOSE n \in top_list :
                          \A m \in top_list :
                              RankedBefore(<<Rank(n, rows), n>>, <<Rank(m, rows), m>>)
    IN  [top_list |-> top_list, chosen |-> chosen, top_count |-> max_count]

RECURSIVE InsertInt(_, _)
InsertInt(n, sorted) ==
    IF sorted = <<>> THEN <<n>>
    ELSE IF Head(sorted) <= n THEN <<Head(sorted)>> \o InsertInt(n, Tail(sorted))
    ELSE <<n>> \o sorted

RECURSIVE SortInts(_)
\* sorted(nums[:7])
SortInts(nums) ==
    IF nums = <<>> THEN <<>>
    ELSE InsertInt(nums[Len(nums)], SortInts(SubSeq(nums, 1, Len(nums) - 1)))

RECURSIVE Prefixed(_, _)
\* x before every sequence of seqs
Prefixed(x, seqs) ==
    IF seqs = <<>> THEN <<>> ELSE <<(<<x>> \o Head(seqs))>> \o Prefixed(x, Tail(seqs))

RECURSIVE Combinations(_, _)
\* itertools.combinations(nums, k), in the order it yields them
Combinations(nums, k) ==
    IF k = 0 THEN << <<>> >>
    ELSE IF Len(nums) < k THEN <<>>
    ELSE Prefixed(Head(nums), Combinations(Tail(nums), k - 1))
         \o Combinations(Tail(nums), k)

\* Counter(keys), "c[key] += 1" for each: the keys in the order they first
\* came, each with the number of times it came
Counter(keys) ==
    LET firsts == {i \in 1..Len(keys) : \A j \in 1..(i - 1) : keys[j] # keys[i]}
        before == [i \in firsts |-> Cardinality({j \in firsts : j < i})]
    IN  [p \in 1..Cardinality(firsts) |->
            LET i == CHOOSE x \in firsts : before[x] = p - 1
            IN  [key |-> keys[i],
                 count |-> Cardinality({j \in 1..Len(keys) : keys[j] = keys[i]})]]

\* the place of entry i in sorted(items, key=itemgetter(1), reverse=True): the
\* sort is stable, entries of one count keep the order of the Counter
PlaceByCount(counter, i) ==
    1 + Cardinality({j \in 1..Len(counter) :
                        \/ counter[j].count > counter[i].count
                        \/ counter[j].count = counter[i].count /\ j < i})

\* Counter.most_common(limit): heapq.nlargest(limit, items, key=itemgetter(1))
most_common(counter, limit) ==
    LET place == [i \in 1..Len(counter) |-> PlaceByCount(counter, i)]
    IN  [p \in 1..(IF Len(counter) <= limit THEN Len(counter) ELSE limit) |->
            counter[CHOOSE i \in 1..Len(counter) : place[i] = p]]

RECURSIVE MainsList(_)
\* "if len(nums) >= 7: mains_list.append(sorted(nums[:7]))"
MainsList(rows) ==
    IF rows = <<>> THEN <<>>
    ELSE (IF Len(DictGet(Head(rows), "nums")) >= 7
          THEN <<SortInts(SubSeq(DictGet(Head(rows), "nums"), 1, 7))>> ELSE <<>>)
         \o MainsList(Tail(rows))

RECURSIVE Powerballs(_)
\* "pb = d.get('pb'); if isinstance(pb, int): powerballs.append(pb)"
Powerballs(rows) ==
    IF rows = <<>> THEN <<>>
    ELSE (IF DictGet(Head(rows), "pb") # None THEN <<DictGet(Head(rows), "pb")>> ELSE <<>>)
         \o Powerballs(Tail(rows))

RECURSIVE AllCombinations(_, _)
\* the combinations of every draw of mains_list, in the order they are counted
AllCombinations(mains_list, k) ==
    IF mains_list = <<>> THEN <<>>
    ELSE Combinations(Head(mains_list), k) \o AllCombinations(Tail(mains_list), k)

\* what pick_top returns for an empty table
NoPick == [top_list |-> {}, chosen |-> None, top_count |-> 0]

StatsIdle ==
    [op |-> "none", window |-> NoLimit, k |-> 0, limit |-> 0, main |-> NoPick,
     powerball |-> NoPick, group_top |-> <<>>, powerball_top |-> <<>>, sample_size |-> 0]

\* compute_prediction(window)
compute_prediction(window) ==
    /\ stats.op = "none"
    /\ LET freqs == Frequencies(draws, window)
           rows == get_draws(draws, window)
       IN  stats' = [stats EXCEPT !.op = "prediction", !.window = window,
                                  !.main = pick_top(freqs.main, rows),
                                  !.powerball = pick_top(freqs.powerball, rows)]
    /\ UNCHANGED <<syncVars, fetcher, reader, parser>>

\* compute_group_stats(window, (k,), limit)
compute_group_stats(window, k, limit) ==
    /\ stats.op = "none"
    /\ LET rows == get_draws(draws, window)
           mains_list == MainsList(rows)
       IN  stats' = [stats EXCEPT
                        !.op = "groups", !.window = window, !.k = k, !.limit = limit,
                        !.group_top = most_common(Counter(AllCombinations(mains_list, k)), limit),
                        !.powerball_top = most_common(Counter(Powerballs(rows)), limit),
                        !.sample_size = Len(mains_list)]
    /\ UNCHANGED <<syncVars, fetcher, reader, parser>>

(***************************************************************************)
(* The HTML parser, one call at a time: parser holds the last call, its    *)
(* input, whether the second strategy ran and what the call returned.      *)
(***************************************************************************)
ArchiveUrl == "archive"

ParserIdle ==
    [op |-> "none", page |-> Page(<<>>, <<>>), block |-> kNoDraw, tags_run |-> FALSE,
     out |-> <<>>]

\* _parse_html_page(html, source_url)
ParseHtmlPage(page) ==
    /\ parser' = [op |-> "page", page |-> page, block |-> kNoDraw,
                  tags_run |-> UseTags(ParseBlocks(page.anchors, ArchiveUrl)),
                  out |-> _parse_html_page(page, ArchiveUrl)]
    /\ UNCHANGED <<syncVars, fetcher, reader, stats>>

\* _parse_block(text, tag, source_url)
ParseBlock(b) ==
    /\ parser' = [op |-> "block", page |-> Page(<<>>, <<>>), block |-> b, tags_run |-> FALSE,
                  out |-> _parse_block(b, ArchiveUrl)]
    /\ UNCHANGED <<syncVars, fetcher, reader, stats>>

(***************************************************************************)
(* The specifications.                                                     *)
(***************************************************************************)
Init ==
    /\ InitSync
    /\ fetcher = FetcherIdle
    /\ reader = ReaderIdle
    /\ stats = StatsIdle
    /\ parser = ParserIdle

\* Spec: one invocation of sync_all, every request answered afresh
Free == [pinned |-> FALSE, overlap |-> FALSE, api |-> ApiResponses]
Next == SyncStep("startup", Free)
Spec == Init /\ [][Next]_vars

\* SpecFetch: one call of the fetcher
NextFetch ==
    \/ \E fn \in {"get", "post"} : HttpCall(fn)
    \/ HttpAttemptReturns
    \/ HttpAttemptFails
    \/ HttpRaises
SpecFetch == Init /\ [][NextFetch]_vars

\* SpecIdem: sync_all twice, one call after the other, against an upstream
\* that does not change
Stable ==
    [pinned |-> TRUE, overlap |-> FALSE,
     api |-> {Failed, Json(FeedA), Json(FeedA2), Json(FeedRep)}]
NextIdem == \E r \in RunIds : SyncStep(r, Stable)
SpecIdem == Init /\ [][NextIdem]_vars

\* SpecConc: the cron job fires while the start-up sync runs; historyresults
\* answers every range
Busy ==
    [pinned |-> FALSE, overlap |-> TRUE,
     api |-> {Json(FeedA), Json(FeedA2)}]
NextConc ==
    \E r \in RunIds :
        \/ Start(r, Busy)
        \/ PostHistoryResults(r, Busy)
        \/ UpsertSkip(r)
        \/ UpsertStore(r)
        \/ UpsertFail(r)
        \/ BatchEnd(r)
SpecConc == Init /\ [][NextConc]_vars

\* SpecFreq: a request calls get_frequencies while the start-up sync runs
Windows == {NoLimit, 1, 2}
Quiet == [pinned |-> FALSE, overlap |-> FALSE, api |-> {Json(FeedA), Json(FeedA2), Json(FeedRep)}]
NextFreq ==
    \/ Start("startup", Quiet)
    \/ PostHistoryResults("startup", Quiet)
    \/ UpsertSkip("startup")
    \/ UpsertStore("startup")
    \/ UpsertFail("startup")
    \/ BatchEnd("startup")
    \/ \E window \in Windows : GetFrequencies(window)
    \/ SelectIds
    \/ SelectMain
    \/ SelectPowerball
    \/ SelectCount
SpecFreq == Init /\ [][NextFreq]_vars

\* SpecStats: one request to the stats engine, on a table the syncs have left
sNew == Draw(4, year_now * 10000 + 613, <<1, 2, 3, 4, 5, 6, 7>>, 5, "thelott-api")
sA == Draw(3, NewDay, <<2, 9, 17, 23, 28, 31, 35>>, 10, "thelott-api")
sB == Draw(2, year_now * 10000 + 530, <<1, 7, 12, 19, 21, 27, 33>>, 5, "thelott-api")
sC == Draw(1, OldDay, <<3, 6, 14, 20, 22, 30, 34>>, 12, "thelott-api")
StatTables == {{Row(d.draw_no, d) : d \in ds} : ds \in SUBSET {sNew, sA, sB, sC}}
StatWindows == {1, 2, 3}
StatKs == {2, 3}
StatLimits == {1, 3, 25}
InitStats ==
    /\ InitWith(StatTables)
    /\ fetcher = FetcherIdle
    /\ reader = ReaderIdle
    /\ stats = StatsIdle
    /\ parser = ParserIdle
NextStats ==
    \/ \E window \in StatWindows : compute_prediction(window)
    \/ \E window \in StatWindows, k \in StatKs, limit \in StatLimits :
            compute_group_stats(window, k, limit)
SpecStats == InitStats /\ [][NextStats]_vars

\* SpecHtml: calls of the HTML parser on the pages and blocks above
NextHtml ==
    \/ \E page \in HtmlPages : ParseHtmlPage(page)
    \/ \E b \in HtmlBlocks : ParseBlock(b)
SpecHtml == Init /\ [][NextHtml]_vars

(***************************************************************************)
(* The properties.                                                         *)
(***************************************************************************)
\* range(YEAR_START, year_now + 1), then the trailing window
AllScopes ==
    [i \in 1..(year_now - YEAR_START + 2) |->
        IF i <= year_now - YEAR_START + 1 THEN YearScope(YEAR_START + i - 1) ELSE Latest6m]

IsPrefix(s, t) == Len(s) <= Len(t) /\ s = SubSeq(t, 1, Len(s))

Distinct(nums) == \A i, j \in 1..Len(nums) : i # j => nums[i] # nums[j]

StoredNumbers(table) == {row.draw_no : row \in table}

\* upsert_draw raised in run r
StorageFailed(r) == \E i \in 1..Len(raised[r]) : raised[r][i].what = "store"

\* the place of the first record with draw number n in seq
FirstOf(seq, n) ==
    CHOOSE i \in 1..Len(seq) : seq[i].draw_no = n /\ \A j \in 1..(i - 1) : seq[j].draw_no # n

RECURSIVE SumOf(_)
\* the sum of the values of a table
SumOf(f) ==
    IF DOMAIN f = {} THEN 0
    ELSE LET k == CHOOSE x \in DOMAIN f : TRUE
         IN  f[k] + SumOf([x \in DOMAIN f \ {k} |-> f[x]])

\* C1: whatever the sync runs have upserted so far, interleaved upserts of
\* two runs and upserts of one draw number with different content included,
\* no two rows of draws have the same draw_no.
C1_UniqueDrawNo == \A a, b \in draws : a.draw_no = b.draw_no => a = b

\* C1, its case: both runs are inside upsert_many and both have upserted the
\* same draw number, with different content, and the draw is stored
C1_Interleaved ==
    /\ pc["startup"] = "upsert" /\ pc["cron"] = "upsert"
    /\ \E n \in DOMAIN calls["startup"] \cap DOMAIN calls["cron"] :
        /\ calls["startup"][n] # calls["cron"][n]
        /\ n \in StoredNumbers(draws)
    /\ added_or_updated["startup"] > 0 /\ added_or_updated["cron"] > 0

\* C2: every record sync_all hands to upsert_draw has exactly 7 mains,
\* pairwise distinct and all in 1..35, and a secondary in 1..20.
C2_HandedRecordsValid ==
    \A r \in RunIds : \A n \in DOMAIN calls[r] : \A k \in 1..Len(calls[r][n]) :
        LET d == calls[r][n][k]
        IN  /\ Len(d.nums) = NumMains
            /\ Distinct(d.nums)
            /\ \A i \in 1..Len(d.nums) : d.nums[i] \in 1..MainMax
            /\ d.pb \in 1..PbMax

\* both calls of sync_all have returned and upsert_draw never raised
BothRan == \A r \in RunIds : pc[r] = "done" /\ ~StorageFailed(r)

\* C3: sync_all called twice in sequence against an upstream that answers
\* the second call as it answered the first: the rows of draws (draw_no,
\* date, mains, secondary, provenance) after the second call are those after
\* the first, as many, and both calls return the same upserted count.
C3_Idempotent ==
    BothRan =>
        /\ TableContent(final["cron"]) = TableContent(final["startup"])
        /\ Cardinality(final["cron"]) = Cardinality(final["startup"])
        /\ result["cron"] = result["startup"]

\* C3, its case: both calls returned, and the second upserted again at least
\* two draws the first had stored
C3_SecondRunUpserts ==
    /\ BothRan
    /\ result["cron"].upserted >= 2
    /\ DOMAIN calls["cron"] \subseteq StoredNumbers(final["startup"])

\* the run is over and exactly one exception reached the loop of sync_all:
\* out of the resolution of a year
OneYearRaised(r) ==
    /\ pc[r] = "done"
    /\ Len(raised[r]) = 1
    /\ raised[r][1].what = "resolve"
    /\ raised[r][1].scope.kind = "year"

\* C4: when the resolution of exactly one year raises in the year loop of
\* sync_all, problems holds exactly one entry, labelled with that year, the
\* loop has gone on through every following year and the trailing window,
\* and every draw returned for the other ranges is upserted.
C4_OneYearFails ==
    \A r \in RunIds :
        OneYearRaised(r) =>
            /\ problems[r] = <<[where |-> Where(raised[r][1].scope), err |-> NameError]>>
            /\ visited[r] = AllScopes
            /\ returned[r] \subseteq DOMAIN calls[r]
            /\ returned[r] \subseteq StoredNumbers(final[r])

\* C4, its case: the resolution of the first year raised, nothing else did,
\* and later ranges returned draws
C4_FirstYearRaised ==
    /\ OneYearRaised("startup")
    /\ raised["startup"][1].scope = YearScope(YEAR_START)
    /\ Cardinality(returned["startup"]) >= 2

\* C5: what sync_all returns carries the upsert count and the problems
\* recorded during the run.
C5_ResultCarriesProblems ==
    \A r \in RunIds :
        pc[r] = "done" => DOMAIN result[r] = {"upserted", "problems"}

\* C6: once upsert_draw has raised, the exception leaves sync_all: the run
\* returns no result and records no problem for it.
C6_StorageFailurePropagates ==
    \A r \in RunIds :
        StorageFailed(r) =>
            /\ result[r] = NoResult
            /\ \A i \in 1..Len(problems[r]) : problems[r][i].err # StorageError

\* C7: within one run the ranges are taken in the order of the years from
\* YEAR_START to the current year, then the trailing window; per draw number
\* upsert_draw is called at most once, with the first record of that number
\* upsert_many took, and a later one is never handed on.
C7_FirstSeenWins ==
    \A r \in RunIds :
        /\ IsPrefix(visited[r], AllScopes)
        /\ pc[r] = "done" => visited[r] = AllScopes
        /\ DOMAIN calls[r] = {taken[r][i].draw_no : i \in 1..Len(taken[r])}
        /\ \A n \in DOMAIN calls[r] : calls[r][n] = <<taken[r][FirstOf(taken[r], n)]>>

\* C7, its case: a finished run in which a later range brought a draw number
\* again, with different content
C7_LaterRecordDiffers ==
    /\ pc["startup"] = "done"
    /\ \E i, j \in 1..Len(taken["startup"]) :
        /\ i < j
        /\ taken["startup"][i].draw_no = taken["startup"][j].draw_no
        /\ taken["startup"][i] # taken["startup"][j]

\* C8: the resolution of a range, fetch_year or fetch_latest_six_months,
\* never raises into sync_all.
C8_ResolveNeverRaises ==
    \A r \in RunIds : \A i \in 1..Len(raised[r]) : raised[r][i].what # "resolve"

\* C9: one call of _http_get or _http_post_json makes at most RETRIES
\* requests and none after one that succeeded; it sleeps only behind a failed
\* attempt that another attempt follows, RETRY_BACKOFF times the number of
\* that attempt; when every attempt failed it raises the last attempt's error.
C9_RetryDiscipline ==
    LET log == fetcher.log
        requests == {i \in 1..Len(log) : log[i].ev = "request"}
    IN  /\ Cardinality(requests) <= RETRIES
        /\ \A i \in requests : log[i].err = NoErr => i = Len(log)
        /\ \A i \in 1..Len(log) :
            log[i].ev = "sleep" =>
                /\ i > 1
                /\ log[i - 1].ev = "request"
                /\ log[i - 1].err # NoErr
                /\ log[i - 1].n < RETRIES
                /\ log[i].n = RETRY_BACKOFF * log[i - 1].n
        /\ fetcher.state \in {"returned", "raised"} => log[Len(log)].ev = "request"
        /\ fetcher.state = "returned" => log[Len(log)].err = NoErr
        /\ fetcher.state = "raised" =>
            /\ Cardinality(requests) = RETRIES
            /\ log[Len(log)].n = RETRIES
            /\ fetcher.value = log[Len(log)].err

\* C9, its case: every attempt failed, the first otherwise than the last
C9_AllAttemptsFailed ==
    /\ fetcher.state = "raised"
    /\ Len(fetcher.log) = 2 * RETRIES - 1
    /\ fetcher.log[1].err # fetcher.value

\* C10: the fallback of the trailing window does not go on calling itself
\* until the stack is used up.
C10_FallbackDoesNotReenter == \A r \in RunIds : depth[r] < RecursionLimit


\* C11: at most one invocation of sync_all is running at any time.
C11_SingleFlight ==
    Cardinality({r \in RunIds : pc[r] \notin {"idle", "done"}}) <= 1

\* get_frequencies has returned and every one of its SELECTs read the same table
ReadOneTable == reader.state = "returned" /\ Cardinality(reader.tables) = 1

\* C12: for every window and every table sync_all can leave, what
\* get_frequencies returns has the keys 1..35 and 1..20, its main counts sum
\* to 7 * sample_size and its secondary counts to sample_size.
C12_FrequencySums ==
    ReadOneTable =>
        /\ DOMAIN reader.main = 1..MainMax
        /\ DOMAIN reader.powerball = 1..PbMax
        /\ SumOf(reader.main) = NumMains * reader.sample_size
        /\ SumOf(reader.powerball) = reader.sample_size

\* C12, its case: a window of one draw out of a table of two, and numbers
\* that never occur
C12_WindowOfOne ==
    /\ ReadOneTable
    /\ reader.window = 1
    /\ reader.sample_size = 1
    /\ Cardinality(draws) = 2
    /\ \E n \in 1..MainMax : reader.main[n] = 0

\* C20: whatever sync_all upserts while get_frequencies runs, the counts it
\* returns belong to one set of draws: the main counts sum to
\* 7 * sample_size and the secondary counts to sample_size.
C20_FrequenciesAtomic ==
    reader.state = "returned" =>
        /\ SumOf(reader.main) = NumMains * reader.sample_size
        /\ SumOf(reader.powerball) = reader.sample_size

\* the draws of the window the stats engine was asked for, newest first
WindowRows == get_draws(draws, stats.window)

\* how often n is drawn as a main in the window, and as the secondary
MainCount(n) ==
    Cardinality({<<i, j>> \in (1..Len(WindowRows)) \X (1..NumMains) :
                    WindowRows[i].nums[j] = n})
PowerballCount(n) == Cardinality({i \in 1..Len(WindowRows) : WindowRows[i].powerball = n})

\* the index, from 0, of the newest draw of the window with n among its
\* mains, and of the newest draw with n as its secondary
FirstAsMain(n) ==
    IF \E i \in 1..Len(WindowRows) : InSeq(n, WindowRows[i].nums)
    THEN (CHOOSE i \in 1..Len(WindowRows) :
            /\ InSeq(n, WindowRows[i].nums)
            /\ \A j \in 1..(i - 1) : ~InSeq(n, WindowRows[j].nums)) - 1
    ELSE Never
FirstAsPowerball(n) ==
    IF \E i \in 1..Len(WindowRows) : WindowRows[i].powerball = n
    THEN (CHOOSE i \in 1..Len(WindowRows) :
            /\ WindowRows[i].powerball = n
            /\ \A j \in 1..(i - 1) : WindowRows[j].powerball # n) - 1
    ELSE Never

\* C13: the main compute_prediction chooses is a main of the highest count
\* in the window, and of those the one that turns up first among the mains
\* scanning the draws newest to oldest, the lowest number where several turn
\* up in the same draw.
C13_MainTieBreak ==
    stats.op = "prediction" =>
        LET top == {n \in 1..MainMax : \A m \in 1..MainMax : MainCount(m) <= MainCount(n)}
            c == stats.main.chosen
        IN  /\ c \in top
            /\ \A m \in top :
                \/ FirstAsMain(c) < FirstAsMain(m)
                \/ FirstAsMain(c) = FirstAsMain(m) /\ c <= m

\* C13, its case: the three draws <<2,9,17,23,28,31,35>>, <<1,7,12,19,21,27,33>>,
\* <<3,6,14,20,22,30,34>>, newest first, window 3: 21 mains tie at count 1,
\* and 2 is chosen, not 1
C13_ChoosesTwo ==
    /\ stats.op = "prediction"
    /\ stats.window = 3
    /\ [i \in 1..Len(WindowRows) |-> WindowRows[i].nums]
         = <<sA.nums, sB.nums, sC.nums>>
    /\ 1 \in stats.main.top_list
    /\ stats.main.top_count = 1
    /\ stats.main.chosen = 2

\* C14: the secondary compute_prediction chooses is a secondary of the
\* highest count in the window, and of those the one of the newest draw whose
\* secondary it is, whatever the mains of the draws are.
C14_PowerballTieBreak ==
    stats.op = "prediction" =>
        LET top == {n \in 1..PbMax : \A m \in 1..PbMax : PowerballCount(m) <= PowerballCount(n)}
            c == stats.powerball.chosen
        IN  /\ c \in top
            /\ \A m \in top :
                \/ FirstAsPowerball(c) < FirstAsPowerball(m)
                \/ FirstAsPowerball(c) = FirstAsPowerball(m) /\ c <= m

\* a sorts before b in the order of the tuples
LexLess(a, b) ==
    \E i \in 1..Len(a) : i <= Len(b) /\ a[i] < b[i] /\ \A j \in 1..(i - 1) : a[j] = b[j]

\* C15: the combinations compute_group_stats returns for k are ordered by
\* count descending, and those of equal count by the order of the
\* combinations themselves.
C15_GroupOrder ==
    stats.op = "groups" =>
        \A i \in 1..(Len(stats.group_top) - 1) :
            LET e == stats.group_top[i]
                f == stats.group_top[i + 1]
            IN  e.count > f.count \/ (e.count = f.count /\ LexLess(e.key, f.key))

\* C16: whenever the window holds a draw, powerball_top is not empty, and
\* with a limit of 20 or more its counts sum to the number of draws.
C16_PowerballTop ==
    (stats.op = "groups" /\ Len(WindowRows) >= 1) =>
        /\ stats.powerball_top # <<>>
        /\ stats.limit >= PbMax =>
            SumOf([i \in 1..Len(stats.powerball_top) |-> stats.powerball_top[i].count])
                = Len(WindowRows)

\* the records each strategy of _parse_html_page finds on the page of the call
ByAnchors == ParseBlocks(parser.page.anchors, ArchiveUrl)
ByTags == ParseBlocks(parser.page.tags, ArchiveUrl)

\* C17: in _parse_html_page the block-tag strategy runs exactly when the
\* anchor strategy produced no record: when the anchors yield nothing the
\* result is the block-tag records (de-duplicated, so not empty when there
\* are any), and when the anchors yield a record the result is the anchor
\* records alone, no block-tag record among them.
C17_TagsOnlyWhenNoAnchors ==
    parser.op = "page" =>
        /\ parser.tags_run <=> ByAnchors = <<>>
        /\ ByAnchors = <<>> => /\ parser.out = Dedup(ByTags)
                               /\ ByTags # <<>> => parser.out # <<>>
        /\ ByAnchors # <<>> =>
              /\ parser.out = Dedup(ByAnchors)
              /\ \A i \in 1..Len(parser.out) : InSeq(parser.out[i], ByAnchors)

\* C17 witness: a page whose anchors yield a record and whose block tags
\* would yield a draw the anchors do not have; the result leaves it out
C17_AnchorsWin ==
    /\ parser.op = "page"
    /\ ByAnchors # <<>>
    /\ \E i \in 1..Len(ByTags) :
          \A j \in 1..Len(ByAnchors) : ByTags[i].draw_no # ByAnchors[j].draw_no
    /\ ~parser.tags_run
    /\ parser.out = Dedup(ByAnchors)

\* the windows of eight tokens that are a valid draw: seven in 1..35, then
\* one in 1..20
ValidStarts(cand) ==
    {i \in 1..(Len(cand) - 7) :
        /\ InRangeAll(SubSeq(cand, i, i + 6), 1, MainMax)
        /\ InRangeAll(<<cand[i + 7]>>, 1, PbMax)}

\* C18: a block with a draw number and a date, whose numbers come from the
\* tokens behind the date, and whose tokens hold a window that is a valid
\* draw, yields the record of the first such window, whatever precedes it.
C18_FirstValidWindow ==
    LET b == parser.block
        starts == ValidStarts(b.near)
        least == CHOOSE i \in starts : \A j \in starts : i <= j
    IN  (/\ parser.op = "block"
         /\ b.draw_no # 0
         /\ b.date.fmt # "none" /\ _try_parse_date(b.date) # NoDate
         /\ _extract_8_from_ul(b.ul) = NoNums
         /\ starts # {})
        => parser.out = <<Draw(b.draw_no, _try_parse_date(b.date),
                               SubSeq(b.near, least, least + 6), b.near[least + 7],
                               ArchiveUrl)>>

\* the resolution of a year begins: sync_all calls fetch_year(y)
YearBegins(r) == scope'[r].kind = "year" /\ scope'[r] # scope[r]

\* the first source a year's resolution turns to is the productdraws feed
BeginsWithFeed == \A r \in RunIds : YearBegins(r) => pc'[r] = "productdraws"

\* what a year's resolution returned is dated in that year
ReturnedInYear ==
    \A r \in RunIds : scope[r].kind = "year" =>
        \A i \in 1..Len(queue[r]) : queue[r][i].draw_date \div 10000 = scope[r].year

\* C19: the resolution of a year turns to the bulk productdraws feed first,
\* to the POST endpoints and the archive page only after it, and every
\* record it returns for year Y has its draw_date in year Y.
C19_YearSources == [][BeginsWithFeed]_vars /\ []ReturnedInYear

====
